---- MODULE Spec2Model ----
(***************************************************************************)
(* AristonLydosHybridDevice (src/ariston/lydos_hybrid_device.py): a local  *)
(* mirror of a water heater's state and settings.  The device object owns  *)
(* two dicts, data and plant_settings, and a consumptions_sequences value; *)
(* every handler exists as a blocking method and as a coroutine that       *)
(* suspends at its single await of the API client.                         *)
(*                                                                         *)
(* Python values are modelled by their printed form ("True", "40.0",       *)
(* "None"), dicts by functions over the set of keys present.               *)
(***************************************************************************)
EXTENDS Integers, Sequences, FiniteSets, TLC

\* Number of handler invocations in one run.
MaxOps == 2

----------------------------------------------------------------------------
\* Keys and enumerations of ariston/const.py

MODE == "mode"
REQ_TEMP == "reqTemp"
ON == "on"

SE_ANTILEGIONELLA_ON_OFF == "SeAntilegionellaOnOff"
SE_MAX_SETPOINT_TEMPERATURE == "SeMaxSetpointTemperature"
SE_MAX_SETPOINT_TEMPERATURE_MIN == "SeMaxSetpointTemperatureMin"
SE_MAX_SETPOINT_TEMPERATURE_MAX == "SeMaxSetpointTemperatureMax"

\* LydosPlantMode: member name -> member value
LydosPlantMode ==
    ("IMEMORY" :> "1") @@ ("GREEN" :> "2") @@ ("PROGRAM" :> "6") @@ ("BOOST" :> "7")

None == "None"
PyTrue == "True"
PyFalse == "False"

\* Python truthiness of a value, as used by `1.0 if x else 0.0`
Truthy(v) == v \notin {PyFalse, None, "0", "0.0", ""}

----------------------------------------------------------------------------
\* Python dict operations

EmptyDict == [k \in {} |-> None]

\* d[k] = v
SetItem(d, k, v) == [x \in (DOMAIN d) \cup {k} |-> IF x = k THEN v ELSE d[x]]

\* d.get(k, None)
DictGet(d, k) == IF k \in DOMAIN d THEN d[k] ELSE None

----------------------------------------------------------------------------
\* The API client (ariston/api.py) as a mock: what it can answer.

ApiError == "ApiError"

\* bodies get_se_plant_data can return
SePlantData ==
    ("D1" :> ((MODE :> "1") @@ (REQ_TEMP :> "40.0") @@ (ON :> PyFalse)))
    @@ ("D2" :> (REQ_TEMP :> "45.0"))

\* bodies get_se_plant_settings can return
SePlantSettings ==
    ("S1" :> ((SE_ANTILEGIONELLA_ON_OFF :> PyFalse)
              @@ (SE_MAX_SETPOINT_TEMPERATURE :> "60.0")
              @@ (SE_MAX_SETPOINT_TEMPERATURE_MIN :> "40.0")
              @@ (SE_MAX_SETPOINT_TEMPERATURE_MAX :> "80.0")))
    @@ ("S2" :> ((SE_ANTILEGIONELLA_ON_OFF :> PyTrue)
                 @@ (SE_MAX_SETPOINT_TEMPERATURE_MIN :> "40.0")))

\* bodies get_consumptions_sequences can return
ConsumptionsSequences == ("Q1" :> <<"seq">>)

\* The remote operation an API client method performs: a blocking method and
\* its async_ twin perform the same one.
RemoteOperation ==
    ("get_se_plant_data" :> "se_plant_data")
    @@ ("async_get_se_plant_data" :> "se_plant_data")
    @@ ("get_se_plant_settings" :> "se_plant_settings")
    @@ ("async_get_se_plant_settings" :> "se_plant_settings")
    @@ ("get_consumptions_sequences" :> "consumptions_sequences")
    @@ ("async_get_consumptions_sequences" :> "consumptions_sequences")
    @@ ("set_lydos_plant_setting" :> "lydos_plant_setting")
    @@ ("async_set_lydos_plant_setting" :> "lydos_plant_setting")
    @@ ("set_lydos_mode" :> "lydos_mode")
    @@ ("async_set_lydos_mode" :> "lydos_mode")
    @@ ("set_lydos_temperature" :> "lydos_temperature")
    @@ ("async_set_lydos_temperature" :> "lydos_temperature")
    @@ ("set_lydos_power" :> "lydos_power")
    @@ ("async_set_lydos_power" :> "lydos_power")

\* One call of an API client method: the method, the setting key or query
\* string it names ("-" if none), the new value and the old value ("-" if none).
ApiCall(method, key, new, old) ==
    [method |-> method, key |-> key, new |-> new, old |-> old]

----------------------------------------------------------------------------
\* What running a piece of a handler on the device `dev` gives: the device
\* afterwards, the API calls made (in order), how the piece ended ("ok": it
\* returned, "await": it is suspended at its await, otherwise the exception
\* raised) and the value returned.

Returns(dev, calls, val) == [dev |-> dev, calls |-> calls, out |-> "ok", val |-> val]
Raises(dev, calls, exc) == [dev |-> dev, calls |-> calls, out |-> exc, val |-> None]
Awaits(dev, calls) == [dev |-> dev, calls |-> calls, out |-> "await", val |-> None]

----------------------------------------------------------------------------
\* Blocking handlers.  `resp` is the API client's answer to the call made:
\* ApiError when it raises, otherwise "ok" or the name of the body returned.

update_state(dev, resp) ==
    LET call == ApiCall("get_se_plant_data", "-", "-", "-")
    IN  IF resp = ApiError
        THEN Raises(dev, <<call>>, resp)
        ELSE Returns([dev EXCEPT !.data = SePlantData[resp]], <<call>>, None)

update_settings(dev, resp) ==
    LET call == ApiCall("get_se_plant_settings", "-", "-", "-")
    IN  IF resp = ApiError
        THEN Raises(dev, <<call>>, resp)
        ELSE Returns([dev EXCEPT !.plant_settings = SePlantSettings[resp]],
                     <<call>>, None)

get_consumptions_sequences(dev, resp) ==
    LET call == ApiCall("get_consumptions_sequences",
                        "DhwHeatingPumpElec%2CDhwResistorElec", "-", "-")
    IN  IF resp = ApiError
        THEN Raises(dev, <<call>>, resp)
        ELSE Returns([dev EXCEPT !.consumptions_sequences =
                                     ConsumptionsSequences[resp]],
                     <<call>>, None)

\* Fault: plant_settings is rebound to a dict holding the one key.
set_antilegionella_rebinding(dev, anti_leg, resp) ==
    IF SE_ANTILEGIONELLA_ON_OFF \notin DOMAIN dev.plant_settings
    THEN Raises(dev, <<>>, "KeyError")
    ELSE LET call == ApiCall("set_lydos_plant_setting",
                             SE_ANTILEGIONELLA_ON_OFF,
                             IF Truthy(anti_leg) THEN "1.0" ELSE "0.0",
                             IF Truthy(dev.plant_settings[SE_ANTILEGIONELLA_ON_OFF])
                             THEN "1.0" ELSE "0.0")
         IN  IF resp = ApiError
             THEN Raises(dev, <<call>>, resp)
             ELSE Returns([dev EXCEPT !.plant_settings =
                              SetItem(EmptyDict, SE_ANTILEGIONELLA_ON_OFF, anti_leg)],
                          <<call>>, None)

set_antilegionella(dev, anti_leg, resp) ==
    IF SE_ANTILEGIONELLA_ON_OFF \notin DOMAIN dev.plant_settings
    THEN Raises(dev, <<>>, "KeyError")
    ELSE LET call == ApiCall("set_lydos_plant_setting",
                             SE_ANTILEGIONELLA_ON_OFF,
                             IF Truthy(anti_leg) THEN "1.0" ELSE "0.0",
                             IF Truthy(dev.plant_settings[SE_ANTILEGIONELLA_ON_OFF])
                             THEN "1.0" ELSE "0.0")
         IN  IF resp = ApiError
             THEN Raises(dev, <<call>>, resp)
             ELSE Returns([dev EXCEPT !.plant_settings =
                              SetItem(@, SE_ANTILEGIONELLA_ON_OFF, anti_leg)],
                          <<call>>, None)

\* Fault: the member's name is stored, not its value.
set_water_heater_operation_mode_storing_name(dev, operation_mode, resp) ==
    IF operation_mode \notin DOMAIN LydosPlantMode
    THEN Raises(dev, <<>>, "KeyError")
    ELSE LET call == ApiCall("set_lydos_mode", "-", operation_mode, "-")
         IN  IF resp = ApiError
             THEN Raises(dev, <<call>>, resp)
             ELSE Returns([dev EXCEPT !.data = SetItem(@, MODE, operation_mode)],
                          <<call>>, None)

set_water_heater_operation_mode(dev, operation_mode, resp) ==
    IF operation_mode \notin DOMAIN LydosPlantMode
    THEN Raises(dev, <<>>, "KeyError")
    ELSE LET call == ApiCall("set_lydos_mode", "-", operation_mode, "-")
         IN  IF resp = ApiError
             THEN Raises(dev, <<call>>, resp)
             ELSE Returns([dev EXCEPT !.data =
                              SetItem(@, MODE, LydosPlantMode[operation_mode])],
                          <<call>>, None)

\* Fault: the snapshot is written before the call is made.
set_water_heater_temperature_writing_first(dev, temperature, resp) ==
    LET call == ApiCall("set_lydos_temperature", "-", temperature, "-")
        written == [dev EXCEPT !.data = SetItem(@, REQ_TEMP, temperature)]
    IN  IF resp = ApiError
        THEN Raises(written, <<call>>, resp)
        ELSE Returns(written, <<call>>, None)

set_water_heater_temperature(dev, temperature, resp) ==
    LET call == ApiCall("set_lydos_temperature", "-", temperature, "-")
    IN  IF resp = ApiError
        THEN Raises(dev, <<call>>, resp)
        ELSE Returns([dev EXCEPT !.data = SetItem(@, REQ_TEMP, temperature)],
                     <<call>>, None)

set_power(dev, power, resp) ==
    LET call == ApiCall("set_lydos_power", "-", power, "-")
    IN  IF resp = ApiError
        THEN Raises(dev, <<call>>, resp)
        ELSE Returns([dev EXCEPT !.data = SetItem(@, ON, power)], <<call>>, None)

\* Fault: the snapshot is written before the call, so the old value sent is
\* the new one.
set_max_setpoint_temp_writing_first(dev, max_setpoint_temp, resp) ==
    IF SE_MAX_SETPOINT_TEMPERATURE \notin DOMAIN dev.plant_settings
    THEN Raises(dev, <<>>, "KeyError")
    ELSE LET call == ApiCall("set_lydos_plant_setting",
                             SE_MAX_SETPOINT_TEMPERATURE,
                             max_setpoint_temp,
                             max_setpoint_temp)
         IN  IF resp = ApiError
             THEN Raises(dev, <<call>>, resp)
             ELSE Returns([dev EXCEPT !.plant_settings =
                              SetItem(@, SE_MAX_SETPOINT_TEMPERATURE,
                                      max_setpoint_temp)],
                          <<call>>, None)

set_max_setpoint_temp(dev, max_setpoint_temp, resp) ==
    IF SE_MAX_SETPOINT_TEMPERATURE \notin DOMAIN dev.plant_settings
    THEN Raises(dev, <<>>, "KeyError")
    ELSE LET call == ApiCall("set_lydos_plant_setting",
                             SE_MAX_SETPOINT_TEMPERATURE,
                             max_setpoint_temp,
                             dev.plant_settings[SE_MAX_SETPOINT_TEMPERATURE])
         IN  IF resp = ApiError
             THEN Raises(dev, <<call>>, resp)
             ELSE Returns([dev EXCEPT !.plant_settings =
                              SetItem(@, SE_MAX_SETPOINT_TEMPERATURE,
                                      max_setpoint_temp)],
                          <<call>>, None)

----------------------------------------------------------------------------
\* Getters over plant_settings.

\* Fault: the getter subscripts the dict instead of calling get.
get_water_anti_leg_value_subscripting(dev) ==
    IF SE_ANTILEGIONELLA_ON_OFF \in DOMAIN dev.plant_settings
    THEN Returns(dev, <<>>, dev.plant_settings[SE_ANTILEGIONELLA_ON_OFF])
    ELSE Raises(dev, <<>>, "KeyError")

get_water_anti_leg_value(dev) ==
    Returns(dev, <<>>, DictGet(dev.plant_settings, SE_ANTILEGIONELLA_ON_OFF))

get_water_heater_maximum_setpoint_temperature_minimum(dev) ==
    Returns(dev, <<>>, DictGet(dev.plant_settings, SE_MAX_SETPOINT_TEMPERATURE_MIN))

get_water_heater_maximum_setpoint_temperature_maximum(dev) ==
    Returns(dev, <<>>, DictGet(dev.plant_settings, SE_MAX_SETPOINT_TEMPERATURE_MAX))

\* Fault: the getter reads the key of the upper bound.
get_water_heater_maximum_setpoint_temperature_reading_max(dev) ==
    Returns(dev, <<>>, DictGet(dev.plant_settings, SE_MAX_SETPOINT_TEMPERATURE_MAX))

get_water_heater_maximum_setpoint_temperature(dev) ==
    Returns(dev, <<>>, DictGet(dev.plant_settings, SE_MAX_SETPOINT_TEMPERATURE))

----------------------------------------------------------------------------
\* Coroutines.  Each is two pieces: async_X runs from the call of the
\* coroutine to its await (the arguments are evaluated and the API client's
\* coroutine is called), async_X_resume runs from the end of the await to the
\* return, on the device as it is by then.

async_update_state(dev) ==
    Awaits(dev, <<ApiCall("async_get_se_plant_data", "-", "-", "-")>>)

\* Fault: the answer is merged into data (dict.update) instead of replacing it.
async_update_state_resume_merging(dev, resp) ==
    IF resp = ApiError
    THEN Raises(dev, <<>>, resp)
    ELSE Returns([dev EXCEPT !.data = SePlantData[resp] @@ @], <<>>, None)

async_update_state_resume(dev, resp) ==
    IF resp = ApiError
    THEN Raises(dev, <<>>, resp)
    ELSE Returns([dev EXCEPT !.data = SePlantData[resp]], <<>>, None)

async_update_settings(dev) ==
    Awaits(dev, <<ApiCall("async_get_se_plant_settings", "-", "-", "-")>>)

async_update_settings_resume(dev, resp) ==
    IF resp = ApiError
    THEN Raises(dev, <<>>, resp)
    ELSE Returns([dev EXCEPT !.plant_settings = SePlantSettings[resp]], <<>>, None)

async_get_consumptions_sequences(dev) ==
    Awaits(dev, <<ApiCall("async_get_consumptions_sequences",
                          "DhwHeatingPumpElec%2CDhwResistorElec", "-", "-")>>)

async_get_consumptions_sequences_resume(dev, resp) ==
    IF resp = ApiError
    THEN Raises(dev, <<>>, resp)
    ELSE Returns([dev EXCEPT !.consumptions_sequences = ConsumptionsSequences[resp]],
                 <<>>, None)

\* Fault: the coroutine passes the old value first and the new value second.
async_set_antilegionella_swapping_values(dev, anti_leg) ==
    IF SE_ANTILEGIONELLA_ON_OFF \notin DOMAIN dev.plant_settings
    THEN Raises(dev, <<>>, "KeyError")
    ELSE Awaits(dev, <<ApiCall("async_set_lydos_plant_setting",
                               SE_ANTILEGIONELLA_ON_OFF,
                               IF Truthy(dev.plant_settings[SE_ANTILEGIONELLA_ON_OFF])
                               THEN "1.0" ELSE "0.0",
                               IF Truthy(anti_leg) THEN "1.0" ELSE "0.0")>>)

async_set_antilegionella(dev, anti_leg) ==
    IF SE_ANTILEGIONELLA_ON_OFF \notin DOMAIN dev.plant_settings
    THEN Raises(dev, <<>>, "KeyError")
    ELSE Awaits(dev, <<ApiCall("async_set_lydos_plant_setting",
                               SE_ANTILEGIONELLA_ON_OFF,
                               IF Truthy(anti_leg) THEN "1.0" ELSE "0.0",
                               IF Truthy(dev.plant_settings[SE_ANTILEGIONELLA_ON_OFF])
                               THEN "1.0" ELSE "0.0")>>)

async_set_antilegionella_resume(dev, anti_leg, resp) ==
    IF resp = ApiError
    THEN Raises(dev, <<>>, resp)
    ELSE Returns([dev EXCEPT !.plant_settings =
                     SetItem(@, SE_ANTILEGIONELLA_ON_OFF, anti_leg)], <<>>, None)

async_set_water_heater_operation_mode(dev, operation_mode) ==
    IF operation_mode \notin DOMAIN LydosPlantMode
    THEN Raises(dev, <<>>, "KeyError")
    ELSE Awaits(dev, <<ApiCall("async_set_lydos_mode", "-", operation_mode, "-")>>)

async_set_water_heater_operation_mode_resume(dev, operation_mode, resp) ==
    IF resp = ApiError
    THEN Raises(dev, <<>>, resp)
    ELSE Returns([dev EXCEPT !.data =
                     SetItem(@, MODE, LydosPlantMode[operation_mode])], <<>>, None)

async_set_water_heater_temperature(dev, temperature) ==
    Awaits(dev, <<ApiCall("async_set_lydos_temperature", "-", temperature, "-")>>)

async_set_water_heater_temperature_resume(dev, temperature, resp) ==
    IF resp = ApiError
    THEN Raises(dev, <<>>, resp)
    ELSE Returns([dev EXCEPT !.data = SetItem(@, REQ_TEMP, temperature)], <<>>, None)

async_set_power(dev, power) ==
    Awaits(dev, <<ApiCall("async_set_lydos_power", "-", power, "-")>>)

\* Fault: the entry is written only when the key is absent (setdefault).
async_set_power_resume_setting_default(dev, power, resp) ==
    IF resp = ApiError
    THEN Raises(dev, <<>>, resp)
    ELSE Returns([dev EXCEPT !.data = IF ON \in DOMAIN @ THEN @
                                      ELSE SetItem(@, ON, power)], <<>>, None)

async_set_power_resume(dev, power, resp) ==
    IF resp = ApiError
    THEN Raises(dev, <<>>, resp)
    ELSE Returns([dev EXCEPT !.data = SetItem(@, ON, power)], <<>>, None)

\* Fault: the old value is read with get, so a missing key goes to the API
\* as None.
async_set_max_setpoint_temp_reading_with_get(dev, max_setpoint_temp) ==
    Awaits(dev, <<ApiCall("async_set_lydos_plant_setting",
                          SE_MAX_SETPOINT_TEMPERATURE,
                          max_setpoint_temp,
                          DictGet(dev.plant_settings, SE_MAX_SETPOINT_TEMPERATURE))>>)

async_set_max_setpoint_temp(dev, max_setpoint_temp) ==
    IF SE_MAX_SETPOINT_TEMPERATURE \notin DOMAIN dev.plant_settings
    THEN Raises(dev, <<>>, "KeyError")
    ELSE Awaits(dev, <<ApiCall("async_set_lydos_plant_setting",
                               SE_MAX_SETPOINT_TEMPERATURE,
                               max_setpoint_temp,
                               dev.plant_settings[SE_MAX_SETPOINT_TEMPERATURE])>>)

async_set_max_setpoint_temp_resume(dev, max_setpoint_temp, resp) ==
    IF resp = ApiError
    THEN Raises(dev, <<>>, resp)
    ELSE Returns([dev EXCEPT !.plant_settings =
                     SetItem(@, SE_MAX_SETPOINT_TEMPERATURE, max_setpoint_temp)],
                 <<>>, None)

----------------------------------------------------------------------------
\* State

VARIABLES
    data,                    \* self.data
    plant_settings,          \* self.plant_settings
    consumptions_sequences,  \* self.consumptions_sequences
    tasks,                   \* coroutines suspended at their await
    trace,                   \* API calls received and handler returns, in order
    pre,                     \* the device before the latest step
    nextId                   \* number of the next invocation

vars == <<data, plant_settings, consumptions_sequences, tasks, trace, pre, nextId>>

\* The device object
Dev == [data |-> data, plant_settings |-> plant_settings,
        consumptions_sequences |-> consumptions_sequences]

\* Arguments the callers pass: both booleans, a temperature and a maximum
\* setpoint the cloud has not delivered, a member of LydosPlantMode and a
\* name that is none.
AntiLegValues == {PyTrue, PyFalse}
PowerValues == {PyTrue, PyFalse}
Temperatures == {"55.0"}
MaxSetpointTemps == {"65.0"}
OperationModes == {"BOOST", "NOT_A_MODE"}

\* Answers of the API client during a run: a failure, or the body the cloud
\* holds by then (D1 and S1 are what it answered to an earlier refresh).
SetResponses == {"ok", ApiError}
DataResponses == {"D2", ApiError}
SettingsResponses == {"S2", ApiError}
ConsumptionsResponses == {"Q1", ApiError}

\* Trace events of invocation `id` of handler `op` called with `arg`
CallEvent(id, op, arg, c) ==
    [kind |-> "call", id |-> id, op |-> op, arg |-> arg,
     method |-> c.method, key |-> c.key, new |-> c.new, old |-> c.old,
     out |-> "-", resp |-> "-", val |-> "-"]

RetEvent(id, op, arg, out, resp, val) ==
    [kind |-> "ret", id |-> id, op |-> op, arg |-> arg,
     method |-> "-", key |-> "-", new |-> "-", old |-> "-",
     out |-> out, resp |-> resp, val |-> val]

CallEvents(id, op, arg, calls) ==
    [i \in 1..Len(calls) |-> CallEvent(id, op, arg, calls[i])]

\* The device as constructed (empty dicts), or as an earlier refresh left it.
Init ==
    /\ \/ data = EmptyDict /\ plant_settings = EmptyDict
       \/ data = SePlantData["D1"] /\ plant_settings = SePlantSettings["S1"]
    /\ consumptions_sequences = <<>>
    /\ tasks = {}
    /\ trace = <<>>
    /\ pre = Dev
    /\ nextId = 1

Store(dev) ==
    /\ data' = dev.data
    /\ plant_settings' = dev.plant_settings
    /\ consumptions_sequences' = dev.consumptions_sequences

\* A blocking handler, or a getter, ran from call to return with result r.
Blocking(op, arg, resp, r) ==
    /\ nextId <= MaxOps
    /\ Store(r.dev)
    /\ trace' = trace \o CallEvents(nextId, op, arg, r.calls)
                      \o <<RetEvent(nextId, op, arg, r.out,
                                    IF r.calls = <<>> THEN "-" ELSE resp, r.val)>>
    /\ pre' = Dev
    /\ nextId' = nextId + 1
    /\ UNCHANGED tasks

\* A coroutine ran from its call to its await (or to the exception raised
\* before it) with result r.
Start(op, arg, r) ==
    /\ nextId <= MaxOps
    /\ Store(r.dev)
    /\ IF r.out = "await"
       THEN /\ tasks' = tasks \cup {[id |-> nextId, op |-> op, arg |-> arg]}
            /\ trace' = trace \o CallEvents(nextId, op, arg, r.calls)
       ELSE /\ tasks' = tasks
            /\ trace' = trace \o CallEvents(nextId, op, arg, r.calls)
                              \o <<RetEvent(nextId, op, arg, r.out, "-", r.val)>>
    /\ pre' = Dev
    /\ nextId' = nextId + 1

\* The suspended coroutine t ran from its await to its end with result r.
Resume(t, resp, r) ==
    /\ Store(r.dev)
    /\ tasks' = tasks \ {t}
    /\ trace' = trace \o CallEvents(t.id, t.op, t.arg, r.calls)
                      \o <<RetEvent(t.id, t.op, t.arg, r.out, resp, r.val)>>
    /\ pre' = Dev
    /\ UNCHANGED nextId

----------------------------------------------------------------------------
\* Actions: blocking handlers

Call_update_state ==
    \E resp \in DataResponses :
        Blocking("update_state", "-", resp, update_state(Dev, resp))

Call_update_settings ==
    \E resp \in SettingsResponses :
        Blocking("update_settings", "-", resp, update_settings(Dev, resp))

Call_get_consumptions_sequences ==
    \E resp \in ConsumptionsResponses :
        Blocking("get_consumptions_sequences", "-", resp,
                 get_consumptions_sequences(Dev, resp))

Call_set_antilegionella ==
    \E anti_leg \in AntiLegValues, resp \in SetResponses :
        Blocking("set_antilegionella", anti_leg, resp,
                 set_antilegionella(Dev, anti_leg, resp))

Call_set_water_heater_operation_mode ==
    \E operation_mode \in OperationModes, resp \in SetResponses :
        Blocking("set_water_heater_operation_mode", operation_mode, resp,
                 set_water_heater_operation_mode(Dev, operation_mode, resp))

Call_set_water_heater_temperature ==
    \E temperature \in Temperatures, resp \in SetResponses :
        Blocking("set_water_heater_temperature", temperature, resp,
                 set_water_heater_temperature(Dev, temperature, resp))

Call_set_power ==
    \E power \in PowerValues, resp \in SetResponses :
        Blocking("set_power", power, resp, set_power(Dev, power, resp))

Call_set_max_setpoint_temp ==
    \E max_setpoint_temp \in MaxSetpointTemps, resp \in SetResponses :
        Blocking("set_max_setpoint_temp", max_setpoint_temp, resp,
                 set_max_setpoint_temp(Dev, max_setpoint_temp, resp))

\* Actions: getters

Call_get_water_anti_leg_value ==
    Blocking("get_water_anti_leg_value", "-", "-", get_water_anti_leg_value(Dev))

Call_get_water_heater_maximum_setpoint_temperature_minimum ==
    Blocking("get_water_heater_maximum_setpoint_temperature_minimum", "-", "-",
             get_water_heater_maximum_setpoint_temperature_minimum(Dev))

Call_get_water_heater_maximum_setpoint_temperature_maximum ==
    Blocking("get_water_heater_maximum_setpoint_temperature_maximum", "-", "-",
             get_water_heater_maximum_setpoint_temperature_maximum(Dev))

Call_get_water_heater_maximum_setpoint_temperature ==
    Blocking("get_water_heater_maximum_setpoint_temperature", "-", "-",
             get_water_heater_maximum_setpoint_temperature(Dev))

\* Actions: coroutines up to their await

Start_async_update_state ==
    Start("async_update_state", "-", async_update_state(Dev))

Start_async_update_settings ==
    Start("async_update_settings", "-", async_update_settings(Dev))

Start_async_get_consumptions_sequences ==
    Start("async_get_consumptions_sequences", "-",
          async_get_consumptions_sequences(Dev))

Start_async_set_antilegionella ==
    \E anti_leg \in AntiLegValues :
        Start("async_set_antilegionella", anti_leg,
              async_set_antilegionella(Dev, anti_leg))

Start_async_set_water_heater_operation_mode ==
    \E operation_mode \in OperationModes :
        Start("async_set_water_heater_operation_mode", operation_mode,
              async_set_water_heater_operation_mode(Dev, operation_mode))

Start_async_set_water_heater_temperature ==
    \E temperature \in Temperatures :
        Start("async_set_water_heater_temperature", temperature,
              async_set_water_heater_temperature(Dev, temperature))

Start_async_set_power ==
    \E power \in PowerValues :
        Start("async_set_power", power, async_set_power(Dev, power))

Start_async_set_max_setpoint_temp ==
    \E max_setpoint_temp \in MaxSetpointTemps :
        Start("async_set_max_setpoint_temp", max_setpoint_temp,
              async_set_max_setpoint_temp(Dev, max_setpoint_temp))

\* Actions: coroutines from their await on

Resume_async_update_state ==
    \E t \in tasks, resp \in DataResponses :
        /\ t.op = "async_update_state"
        /\ Resume(t, resp, async_update_state_resume(Dev, resp))

Resume_async_update_settings ==
    \E t \in tasks, resp \in SettingsResponses :
        /\ t.op = "async_update_settings"
        /\ Resume(t, resp, async_update_settings_resume(Dev, resp))

Resume_async_get_consumptions_sequences ==
    \E t \in tasks, resp \in ConsumptionsResponses :
        /\ t.op = "async_get_consumptions_sequences"
        /\ Resume(t, resp, async_get_consumptions_sequences_resume(Dev, resp))

Resume_async_set_antilegionella ==
    \E t \in tasks, resp \in SetResponses :
        /\ t.op = "async_set_antilegionella"
        /\ Resume(t, resp, async_set_antilegionella_resume(Dev, t.arg, resp))

Resume_async_set_water_heater_operation_mode ==
    \E t \in tasks, resp \in SetResponses :
        /\ t.op = "async_set_water_heater_operation_mode"
        /\ Resume(t, resp,
                  async_set_water_heater_operation_mode_resume(Dev, t.arg, resp))

Resume_async_set_water_heater_temperature ==
    \E t \in tasks, resp \in SetResponses :
        /\ t.op = "async_set_water_heater_temperature"
        /\ Resume(t, resp,
                  async_set_water_heater_temperature_resume(Dev, t.arg, resp))

Resume_async_set_power ==
    \E t \in tasks, resp \in SetResponses :
        /\ t.op = "async_set_power"
        /\ Resume(t, resp, async_set_power_resume(Dev, t.arg, resp))

Resume_async_set_max_setpoint_temp ==
    \E t \in tasks, resp \in SetResponses :
        /\ t.op = "async_set_max_setpoint_temp"
        /\ Resume(t, resp, async_set_max_setpoint_temp_resume(Dev, t.arg, resp))

Next ==
    \/ Call_update_state
    \/ Call_update_settings
    \/ Call_get_consumptions_sequences
    \/ Call_set_antilegionella
    \/ Call_set_water_heater_operation_mode
    \/ Call_set_water_heater_temperature
    \/ Call_set_power
    \/ Call_set_max_setpoint_temp
    \/ Call_get_water_anti_leg_value
    \/ Call_get_water_heater_maximum_setpoint_temperature_minimum
    \/ Call_get_water_heater_maximum_setpoint_temperature_maximum
    \/ Call_get_water_heater_maximum_setpoint_temperature
    \/ Start_async_update_state
    \/ Start_async_update_settings
    \/ Start_async_get_consumptions_sequences
    \/ Start_async_set_antilegionella
    \/ Start_async_set_water_heater_operation_mode
    \/ Start_async_set_water_heater_temperature
    \/ Start_async_set_power
    \/ Start_async_set_max_setpoint_temp
    \/ Resume_async_update_state
    \/ Resume_async_update_settings
    \/ Resume_async_get_consumptions_sequences
    \/ Resume_async_set_antilegionella
    \/ Resume_async_set_water_heater_operation_mode
    \/ Resume_async_set_water_heater_temperature
    \/ Resume_async_set_power
    \/ Resume_async_set_max_setpoint_temp

Spec == Init /\ [][Next]_vars

----------------------------------------------------------------------------
\* Vocabulary of the properties

BlockingSetters ==
    {"set_antilegionella", "set_water_heater_operation_mode",
     "set_water_heater_temperature", "set_power", "set_max_setpoint_temp"}
AsyncSetters ==
    {"async_set_antilegionella", "async_set_water_heater_operation_mode",
     "async_set_water_heater_temperature", "async_set_power",
     "async_set_max_setpoint_temp"}
Setters == BlockingSetters \cup AsyncSetters
AntiLegSetters == {"set_antilegionella", "async_set_antilegionella"}
ModeSetters ==
    {"set_water_heater_operation_mode", "async_set_water_heater_operation_mode"}
TemperatureSetters ==
    {"set_water_heater_temperature", "async_set_water_heater_temperature"}
PowerSetters == {"set_power", "async_set_power"}
MaxSetpointSetters == {"set_max_setpoint_temp", "async_set_max_setpoint_temp"}
PlantSettingSetters == AntiLegSetters \cup MaxSetpointSetters
DataSetters == ModeSetters \cup TemperatureSetters \cup PowerSetters
StateUpdaters == {"update_state", "async_update_state"}
SettingsUpdaters == {"update_settings", "async_update_settings"}
ConsumptionsUpdaters ==
    {"get_consumptions_sequences", "async_get_consumptions_sequences"}
Getters ==
    {"get_water_anti_leg_value",
     "get_water_heater_maximum_setpoint_temperature_minimum",
     "get_water_heater_maximum_setpoint_temperature_maximum",
     "get_water_heater_maximum_setpoint_temperature"}

\* The snapshot key a setter or a getter is about
KeyOf(op) ==
    CASE op \in AntiLegSetters \cup {"get_water_anti_leg_value"} ->
             SE_ANTILEGIONELLA_ON_OFF
      [] op \in MaxSetpointSetters
               \cup {"get_water_heater_maximum_setpoint_temperature"} ->
             SE_MAX_SETPOINT_TEMPERATURE
      [] op = "get_water_heater_maximum_setpoint_temperature_minimum" ->
             SE_MAX_SETPOINT_TEMPERATURE_MIN
      [] op = "get_water_heater_maximum_setpoint_temperature_maximum" ->
             SE_MAX_SETPOINT_TEMPERATURE_MAX
      [] op \in ModeSetters -> MODE
      [] op \in TemperatureSetters -> REQ_TEMP
      [] op \in PowerSetters -> ON

\* The dict of device d that setter op writes, and the one it does not
OwnDict(d, op) == IF op \in DataSetters THEN d.data ELSE d.plant_settings
OtherDict(d, op) == IF op \in DataSetters THEN d.plant_settings ELSE d.data

\* The snapshot entry setter op is about, None when the key is absent
Entry(op) == DictGet(OwnDict(Dev, op), KeyOf(op))

N == Len(trace)
Last == trace[N]
Rets == {i \in 1..N : trace[i].kind = "ret"}
CallsOf(id) == {i \in 1..N : trace[i].kind = "call" /\ trace[i].id = id}
OkRet(i) == trace[i].kind = "ret" /\ trace[i].out = "ok"

\* The snapshot value that mirrors what API call event c sent
Mirrors(c, v) ==
    CASE c.op \in ModeSetters ->
             c.new \in DOMAIN LydosPlantMode /\ v = LydosPlantMode[c.new]
      [] c.op \in AntiLegSetters ->
             \/ v = PyTrue /\ c.new = "1.0"
             \/ v = PyFalse /\ c.new = "0.0"
      [] OTHER -> v = c.new

\* Return event i wrote the whole dict in which setter op's key lives
Refreshes(i, op) ==
    /\ OkRet(i)
    /\ trace[i].op \in (IF op \in DataSetters THEN StateUpdaters ELSE SettingsUpdaters)

\* Return event i is a normal return of a setter for the key of op
SetsKeyOf(i, op) ==
    OkRet(i) /\ trace[i].op \in Setters /\ KeyOf(trace[i].op) = KeyOf(op)

----------------------------------------------------------------------------
\* C1: after any sequence of handler calls, if the latest normal return
\* that wrote a setter's key is that of a setter (blocking or async) and not
\* of a refresh, the snapshot entry for the key mirrors the value that setter
\* sent to the API in its one call: REQ_TEMP, ON and the maximum setpoint hold
\* the value sent, MODE holds the value of the member sent, the
\* anti-legionella entry the boolean whose 1.0/0.0 encoding was sent.
SnapshotReflectsValueSent ==
    \A i \in 1..N :
        (/\ OkRet(i)
         /\ trace[i].op \in Setters
         /\ \A j \in (i + 1)..N :
                ~ SetsKeyOf(j, trace[i].op) /\ ~ Refreshes(j, trace[i].op))
        => /\ Cardinality(CallsOf(trace[i].id)) = 1
           /\ \A c \in CallsOf(trace[i].id) :
                  /\ KeyOf(trace[i].op) \in DOMAIN OwnDict(Dev, trace[i].op)
                  /\ Mirrors(trace[c], Entry(trace[i].op))

\* Two setters of the anti-legionella flag returned normally with different
\* arguments, the second one last of all.
WitnessSnapshotReflectsValueSent ==
    /\ N > 0
    /\ \E i \in Rets :
           /\ i < N
           /\ SetsKeyOf(i, "set_antilegionella")
           /\ SetsKeyOf(N, "set_antilegionella")
           /\ trace[i].arg # Last.arg
           /\ plant_settings[SE_ANTILEGIONELLA_ON_OFF] = Last.arg

\* C2: a getter that returns right after the normal return of the setter of
\* its key (no handler returning in between) returns the setter's argument:
\* set_antilegionella / get_water_anti_leg_value and set_max_setpoint_temp /
\* get_water_heater_maximum_setpoint_temperature, blocking or async setter.
SetterGetterRoundTrip ==
    (/\ N > 1
     /\ Last.kind = "ret"
     /\ Last.op \in {"get_water_anti_leg_value",
                     "get_water_heater_maximum_setpoint_temperature"})
    => \A i \in Rets :
           (/\ i < N
            /\ \A m \in Rets : ~ (i < m /\ m < N)
            /\ trace[i].op \in PlantSettingSetters
            /\ OkRet(i)
            /\ KeyOf(Last.op) = KeyOf(trace[i].op))
           => Last.out = "ok" /\ Last.val = trace[i].arg

\* The maximum setpoint was set to a value the refresh had not delivered
\* and the getter returned it.
WitnessSetterGetterRoundTrip ==
    /\ N > 1
    /\ Last.kind = "ret"
    /\ Last.op = "get_water_heater_maximum_setpoint_temperature"
    /\ Last.val = "65.0"
    /\ trace[N - 1].kind = "ret"
    /\ trace[N - 1].op \in MaxSetpointSetters
    /\ trace[N - 1].out = "ok"

\* C3: a getter returns normally, with None when its key is absent from
\* plant_settings and with the stored value of its own key otherwise, makes
\* no API call and leaves the device as it was.
GetterReadsOwnKey ==
    (N > 0 /\ Last.op \in Getters)
    => /\ Last.kind = "ret"
       /\ Last.out = "ok"
       /\ Last.val = (IF KeyOf(Last.op) \in DOMAIN pre.plant_settings
                      THEN pre.plant_settings[KeyOf(Last.op)]
                      ELSE None)
       /\ CallsOf(Last.id) = {}
       /\ Dev = pre

\* A getter returned None for a key absent from a plant_settings that holds
\* other keys.
WitnessGetterReadsOwnKey ==
    /\ N > 0
    /\ Last.op = "get_water_heater_maximum_setpoint_temperature"
    /\ Last.val = None
    /\ SE_ANTILEGIONELLA_ON_OFF \in DOMAIN plant_settings

----------------------------------------------------------------------------
\* A coroutine run to completion without interleaving: s is the piece up to
\* the await, r the piece after it.
RunToCompletion(s, r) ==
    IF s.out # "await"
    THEN s
    ELSE [dev |-> r.dev, calls |-> s.calls \o r.calls, out |-> r.out, val |-> r.val]

\* The blocking handler of the name op, or the coroutine of that name run to
\* completion without interleaving, on device d.
Run(op, d, arg, resp) ==
    CASE op = "update_state" -> update_state(d, resp)
      [] op = "update_settings" -> update_settings(d, resp)
      [] op = "get_consumptions_sequences" -> get_consumptions_sequences(d, resp)
      [] op = "set_antilegionella" -> set_antilegionella(d, arg, resp)
      [] op = "set_water_heater_operation_mode" ->
             set_water_heater_operation_mode(d, arg, resp)
      [] op = "set_water_heater_temperature" ->
             set_water_heater_temperature(d, arg, resp)
      [] op = "set_power" -> set_power(d, arg, resp)
      [] op = "set_max_setpoint_temp" -> set_max_setpoint_temp(d, arg, resp)
      [] op = "async_update_state" ->
             RunToCompletion(async_update_state(d),
                             async_update_state_resume(d, resp))
      [] op = "async_update_settings" ->
             RunToCompletion(async_update_settings(d),
                             async_update_settings_resume(d, resp))
      [] op = "async_get_consumptions_sequences" ->
             RunToCompletion(async_get_consumptions_sequences(d),
                             async_get_consumptions_sequences_resume(d, resp))
      [] op = "async_set_antilegionella" ->
             RunToCompletion(async_set_antilegionella(d, arg),
                             async_set_antilegionella_resume(d, arg, resp))
      [] op = "async_set_water_heater_operation_mode" ->
             RunToCompletion(
                 async_set_water_heater_operation_mode(d, arg),
                 async_set_water_heater_operation_mode_resume(d, arg, resp))
      [] op = "async_set_water_heater_temperature" ->
             RunToCompletion(
                 async_set_water_heater_temperature(d, arg),
                 async_set_water_heater_temperature_resume(d, arg, resp))
      [] op = "async_set_power" ->
             RunToCompletion(async_set_power(d, arg),
                             async_set_power_resume(d, arg, resp))
      [] op = "async_set_max_setpoint_temp" ->
             RunToCompletion(async_set_max_setpoint_temp(d, arg),
                             async_set_max_setpoint_temp_resume(d, arg, resp))

\* The other call surface of a paired handler
Twin ==
    ("update_state" :> "async_update_state")
    @@ ("update_settings" :> "async_update_settings")
    @@ ("get_consumptions_sequences" :> "async_get_consumptions_sequences")
    @@ ("set_antilegionella" :> "async_set_antilegionella")
    @@ ("set_water_heater_operation_mode" :> "async_set_water_heater_operation_mode")
    @@ ("set_water_heater_temperature" :> "async_set_water_heater_temperature")
    @@ ("set_power" :> "async_set_power")
    @@ ("set_max_setpoint_temp" :> "async_set_max_setpoint_temp")
    @@ ("async_update_state" :> "update_state")
    @@ ("async_update_settings" :> "update_settings")
    @@ ("async_get_consumptions_sequences" :> "get_consumptions_sequences")
    @@ ("async_set_antilegionella" :> "set_antilegionella")
    @@ ("async_set_water_heater_operation_mode" :> "set_water_heater_operation_mode")
    @@ ("async_set_water_heater_temperature" :> "set_water_heater_temperature")
    @@ ("async_set_power" :> "set_power")
    @@ ("async_set_max_setpoint_temp" :> "set_max_setpoint_temp")

\* The latest return ends a paired handler that ran from the device `pre`
\* with nothing in between: a blocking handler, a coroutine that raised before
\* its await, or a coroutine resumed in the step after the one that called it.
RanUninterleaved ==
    /\ N > 0
    /\ Last.kind = "ret"
    /\ Last.op \in DOMAIN Twin
    /\ \A c \in CallsOf(Last.id) : c = N - 1

\* What the trace shows of the invocation that returned last
ObservedLast ==
    [dev |-> Dev,
     calls |-> {[method |-> RemoteOperation[trace[c].method], key |-> trace[c].key,
                 new |-> trace[c].new, old |-> trace[c].old] : c \in CallsOf(Last.id)},
     out |-> Last.out, val |-> Last.val]

\* The same of a handler result r
ObservedOf(r) ==
    [dev |-> r.dev,
     calls |-> {[r.calls[i] EXCEPT !.method = RemoteOperation[@]] :
                   i \in 1..Len(r.calls)},
     out |-> r.out, val |-> r.val]

\* C4: whenever a blocking handler, or a coroutine run to completion without
\* interleaving, has run from a device with an argument and an answer of the
\* API (a failure included), the other variant of the handler run from the
\* same device with the same argument and answer performs the same remote
\* operation with the same arguments, ends the same way and leaves the same
\* data, plant_settings and consumptions_sequences.
BlockingAndAsyncAgree ==
    RanUninterleaved
    => ObservedLast = ObservedOf(Run(Twin[Last.op], pre, Last.arg, Last.resp))

\* async_set_max_setpoint_temp ran from call to return with nothing in
\* between and changed the device.
WitnessBlockingAndAsyncAgree ==
    /\ RanUninterleaved
    /\ Last.op = "async_set_max_setpoint_temp"
    /\ Last.out = "ok"
    /\ CallsOf(Last.id) = {N - 1}
    /\ Dev # pre

----------------------------------------------------------------------------
\* The invocation whose event is last began in the latest step: a blocking
\* handler that ran whole, or a coroutine that reached its await or raised
\* before it.
BeganInLatestStep ==
    /\ N > 0
    /\ \/ Last.kind = "call" /\ Last.op \in AsyncSetters
       \/ Last.kind = "ret" /\ Last.op \in BlockingSetters
       \/ Last.kind = "ret" /\ Last.op \in AsyncSetters /\ CallsOf(Last.id) = {}

\* The API call event of the latest step, if it has one
LatestCalls ==
    IF N = 0 THEN {}
    ELSE IF Last.kind = "call" THEN {N}
    ELSE IF Last.op \in BlockingSetters THEN CallsOf(Last.id)
    ELSE {}

\* The 1.0/0.0 encoding by truthiness
OnOff(v) == IF v \in {PyFalse, None, "0.0"} THEN "0.0" ELSE "1.0"

\* C5: a setter invocation makes at most one API call, and exactly one when
\* it returns normally; the call precedes the return, which is the
\* invocation's last event, and a coroutine
\* suspended at its call has not written the snapshot; the call of a
\* plant-setting setter names the setter's key, carries the setter's argument
\* as new value (1.0/0.0 for anti-legionella) and as old value the snapshot
\* entry at the moment the call is issued (1.0/0.0 by truthiness for
\* anti-legionella).
OneCallThenWrite ==
    /\ (N > 0 /\ Last.op \in Setters)
       => /\ Cardinality(CallsOf(Last.id)) <= 1
          /\ (OkRet(N) => Cardinality(CallsOf(Last.id)) = 1)
          /\ \A i \in 1..N :
                 (trace[i].kind = "ret" /\ trace[i].id = Last.id) => i = N
    /\ (N > 0 /\ Last.kind = "call") => Dev = pre
    /\ \A c \in LatestCalls :
           trace[c].op \in PlantSettingSetters
           => /\ trace[c].key = KeyOf(trace[c].op)
              /\ trace[c].key \in DOMAIN pre.plant_settings
              /\ IF trace[c].op \in AntiLegSetters
                 THEN /\ trace[c].new = OnOff(trace[c].arg)
                      /\ trace[c].old = OnOff(pre.plant_settings[trace[c].key])
                 ELSE /\ trace[c].new = trace[c].arg
                      /\ trace[c].old = pre.plant_settings[trace[c].key]

\* A second setter of the anti-legionella flag sent, as old value, the
\* encoding of the value the first one had written optimistically.
WitnessOneCallThenWrite ==
    /\ N > 0
    /\ \E c \in LatestCalls :
           /\ trace[c].op \in AntiLegSetters
           /\ trace[c].old = "1.0"
           /\ trace[c].new = "0.0"
    /\ \E i \in Rets :
           i < N /\ SetsKeyOf(i, "set_antilegionella") /\ trace[i].arg = PyTrue

\* C6: when the API call of a setter, of update_state, of update_settings
\* or of the consumptions fetch fails, the handler (blocking or async) raises
\* that same error, has made that one call only, and the step in which it
\* fails leaves data, plant_settings and consumptions_sequences as they
\* were; a handler raises an API error only when the API did.
ApiErrorPropagatesStateUntouched ==
    /\ (N > 0 /\ Last.kind = "ret" /\ Last.resp = ApiError)
       => /\ Last.out = ApiError
          /\ Cardinality(CallsOf(Last.id)) = 1
          /\ Dev = pre
    /\ \A i \in Rets : trace[i].out = ApiError => trace[i].resp = ApiError

\* The API failed a setter on a device whose snapshot holds the setter's key.
WitnessApiErrorPropagatesStateUntouched ==
    /\ N > 0
    /\ Last.kind = "ret"
    /\ Last.op = "async_set_water_heater_temperature"
    /\ Last.resp = ApiError
    /\ REQ_TEMP \in DOMAIN data
    /\ data[REQ_TEMP] # Last.arg

\* C7: a normal return of update_state (or async_update_state) leaves data
\* equal to the mapping the API returned and plant_settings as it was; a
\* normal return of update_settings (or async_update_settings) leaves
\* plant_settings equal to the mapping the API returned and data as it was.
RefreshReplacesSnapshot ==
    (N > 0 /\ Last.kind = "ret" /\ Last.out = "ok")
    => /\ Last.op \in StateUpdaters
          => /\ data = SePlantData[Last.resp]
             /\ plant_settings = pre.plant_settings
       /\ Last.op \in SettingsUpdaters
          => /\ plant_settings = SePlantSettings[Last.resp]
             /\ data = pre.data

\* set_power wrote ON optimistically and a later update_state, whose answer
\* has no ON, discarded it.
WitnessRefreshReplacesSnapshot ==
    /\ N > 0
    /\ Last.kind = "ret"
    /\ Last.op \in StateUpdaters
    /\ Last.out = "ok"
    /\ ON \notin DOMAIN data
    /\ \E i \in Rets : i < N /\ SetsKeyOf(i, "set_power")

\* C8: a normal return of a setter (blocking or async) changes at most the
\* entry of its own key: every other key of its dict is present or absent as
\* before with the value it had, and the other dict and
\* consumptions_sequences are as before.
SetterWritesOnlyOwnKey ==
    (N > 0 /\ Last.kind = "ret" /\ Last.out = "ok" /\ Last.op \in Setters)
    => /\ OtherDict(Dev, Last.op) = OtherDict(pre, Last.op)
       /\ consumptions_sequences = pre.consumptions_sequences
       /\ DOMAIN OwnDict(Dev, Last.op) \ {KeyOf(Last.op)}
          = DOMAIN OwnDict(pre, Last.op) \ {KeyOf(Last.op)}
       /\ \A k \in DOMAIN OwnDict(pre, Last.op) \ {KeyOf(Last.op)} :
              OwnDict(Dev, Last.op)[k] = OwnDict(pre, Last.op)[k]

\* The temperature setter changed REQ_TEMP of a data dict that holds MODE
\* and ON as well.
WitnessSetterWritesOnlyOwnKey ==
    /\ N > 0
    /\ Last.kind = "ret"
    /\ Last.out = "ok"
    /\ Last.op \in TemperatureSetters
    /\ {MODE, ON} \subseteq DOMAIN pre.data
    /\ REQ_TEMP \in DOMAIN pre.data
    /\ data[REQ_TEMP] # pre.data[REQ_TEMP]

\* What the setter invocation of event e has to look up, and cannot
LookupFails(e, d) ==
    \/ e.op \in PlantSettingSetters /\ KeyOf(e.op) \notin DOMAIN d.plant_settings
    \/ e.op \in ModeSetters /\ e.arg \notin DOMAIN LydosPlantMode

\* C9: set_antilegionella and set_max_setpoint_temp called while their key
\* is absent from plant_settings, and set_water_heater_operation_mode called
\* with a name that is no LydosPlantMode member (async variants alike), raise
\* KeyError in the step that calls them, make no API call and leave the
\* device as it was; no API call is issued by an invocation whose lookup
\* fails, and KeyError is raised by no other invocation.
SetterLookupFailsBeforeApi ==
    /\ (BeganInLatestStep /\ LookupFails(Last, pre))
       => /\ Last.kind = "ret"
          /\ Last.out = "KeyError"
          /\ CallsOf(Last.id) = {}
          /\ Dev = pre
    /\ (N > 0 /\ Last.kind = "ret" /\ Last.out = "KeyError")
       => /\ BeganInLatestStep
          /\ LookupFails(Last, pre)

\* async_set_max_setpoint_temp was called on a plant_settings that holds
\* other keys but not the maximum setpoint.
WitnessSetterLookupFailsBeforeApi ==
    /\ N > 0
    /\ Last.op = "async_set_max_setpoint_temp"
    /\ Last.out = "KeyError"
    /\ SE_ANTILEGIONELLA_ON_OFF \in DOMAIN plant_settings

----------------------------------------------------------------------------
\* The coroutine whose normal return is the last event set the key that
\* another coroutine set too, the two overlapped (c and d are their API call
\* events, both received before either returned) and the other one returned
\* normally before.
Overlapped(c, d) ==
    /\ trace[c].kind = "call" /\ trace[c].id = Last.id
    /\ trace[d].kind = "call" /\ trace[d].id # Last.id
    /\ trace[d].op \in AsyncSetters
    /\ KeyOf(trace[d].op) = KeyOf(Last.op)
    /\ \E r \in 1..(N - 1) :
           /\ c < r /\ d < r
           /\ OkRet(r)
           /\ trace[r].id = trace[d].id

\* Both of two async setters have just completed normally
BothCompleted ==
    N > 3 /\ Last.kind = "ret" /\ Last.out = "ok" /\ Last.op \in AsyncSetters

\* C10 as stated: once two overlapping async setters of one key have both
\* completed, the snapshot entry mirrors the call the API received last.
OverlapMirrorsLastCallReceived ==
    BothCompleted
    => \A c \in 1..N, d \in 1..N :
           Overlapped(c, d)
           => Mirrors(trace[IF c < d THEN d ELSE c], Entry(Last.op))

\* C10 amended: once two overlapping async setters of one key have both
\* completed normally, the snapshot entry mirrors the call of the one that
\* completed last, whichever call the API received last.
OverlapMirrorsLastCompleted ==
    BothCompleted
    => \A c \in CallsOf(Last.id), d \in 1..N :
           Overlapped(c, d)
           => /\ KeyOf(Last.op) \in DOMAIN OwnDict(Dev, Last.op)
              /\ Mirrors(trace[c], Entry(Last.op))

\* Two overlapping async_set_power calls with different arguments: the one
\* the API received first completed last.
WitnessOverlapMirrorsLastCompleted ==
    /\ BothCompleted
    /\ Last.op = "async_set_power"
    /\ \E c \in 1..N, d \in 1..N :
           /\ Overlapped(c, d)
           /\ c < d
           /\ trace[c].new # trace[d].new

====
